---- MODULE Spec2Model ----
(***************************************************************************)
(* A model of package oldflag (src/flag.go): a FlagSet, the registration   *)
(* of single-rune flags (Var), and the parser Parse / parseOne that walks  *)
(* an argument vector.                                                     *)
(*                                                                         *)
(* Strings are sequences of one-character strings, so that the indexing    *)
(* and slicing parseOne does on a token (s[i+1], s[i+2:]) is computed.     *)
(* The slice f.args is kept the way Go keeps it: a window argv[lo:hi] of   *)
(* the array handed to Parse, lo and hi counted from 0.                    *)
(***************************************************************************)
EXTENDS Integers, Sequences, FiniteSets, TLC

VARIABLES
    formal,         \* f.formal: rune -> Flag (Name, Kind of Value, DefValue)
    actual,         \* f.actual: rune -> Flag
    val,            \* the caller's storage behind each Flag.Value, as Value.String() renders it
    argv,           \* the array behind f.args (the arguments handed to Parse)
    lo,             \* f.args = argv[lo:hi]
    hi,
    parsed,         \* f.parsed
    errorHandling,  \* f.errorHandling
    NoHelp,         \* f.NoHelp
    Version,        \* f.Version # nil
    MyParse,        \* f.MyParse: "nil" or the behaviour of the installed consumer
    pc,             \* "idle": outside Parse, "parsing": inside the loop of Parse
    status,         \* "running", "exit2" (os.Exit(2)) or "panic"
    err,            \* what the last Parse returned (or exited / panicked with)
    out,            \* what this Parse call wrote and called: "diag", "usage", "version"
    setLog,         \* the Value.Set calls of this Parse call, in order
    myRet,          \* what f.myParse returned in the last turn of the loop
    turn,           \* the parity of the number of turns the loop of Parse has taken
    triggered,      \* the flags recorded in f.actual since the FlagSet was made
    op              \* the last method called on the FlagSet, with its argument

vars == <<formal, actual, val, argv, lo, hi, parsed, errorHandling, NoHelp,
          Version, MyParse, pc, status, err, out, setLog, myRet, turn, triggered,
          op>>

-----------------------------------------------------------------------------
(* Bounds of the model. *)

\* The longest argument vector handed to Parse.
MaxArgs == 3

-----------------------------------------------------------------------------
(* Text. *)

EmptyMap == [x \in {} |-> x]

\* The tokens the argument vectors are built from.
Tok_a     == <<"-", "a">>
Tok_ac    == <<"-", "a", "c">>
Tok_c     == <<"-", "c">>
Tok_cc    == <<"-", "c", "c">>
Tok_c_eq5 == <<"-", "c", "=", "5">>
Tok_eq_x  == <<"-", "=", "x">>
Tok_z     == <<"-", "z">>
Tok_73    == <<"7", "3">>
Tok_5     == <<"5">>
Tok_x     == <<"x">>
Tok_dash  == <<"-">>
Tok_dd    == <<"-", "-">>
Tok_help  == <<"-", "-", "h", "e", "l", "p">>
Tok_vers  == <<"-", "-", "v", "e", "r", "s", "i", "o", "n">>
Txt_true  == <<"t", "r", "u", "e">>
Txt_false == <<"f", "a", "l", "s", "e">>

\* All sequences over S of length at most n.
RECURSIVE SeqsUpTo(_, _)
SeqsUpTo(S, n) ==
    IF n = 0 THEN {<<>>}
    ELSE LET shorter == SeqsUpTo(S, n - 1)
         IN  shorter \cup {Append(v, t) : v \in {w \in shorter : Len(w) = n - 1}, t \in S}

-----------------------------------------------------------------------------
(* The Value implementations a flag can be bound to.  nopValue is defined  *)
(* in flag.go; the bool and int values are the package's usual ones.       *)

DigitVal == ("0" :> 0) @@ ("1" :> 1) @@ ("2" :> 2) @@ ("3" :> 3) @@ ("4" :> 4) @@
            ("5" :> 5) @@ ("6" :> 6) @@ ("7" :> 7) @@ ("8" :> 8) @@ ("9" :> 9)

DigitChr == <<"0", "1", "2", "3", "4", "5", "6", "7", "8", "9">>

IsDigits(t) == Len(t) > 0 /\ \A k \in 1..Len(t) : t[k] \in DOMAIN DigitVal

\* strconv.ParseInt on a decimal literal with an optional sign.
IsInt(t) ==
    \/ IsDigits(t)
    \/ Len(t) > 1 /\ t[1] \in {"+", "-"} /\ IsDigits(Tail(t))

RECURSIVE DigitsVal(_, _)
DigitsVal(t, acc) ==
    IF t = <<>> THEN acc ELSE DigitsVal(Tail(t), 10 * acc + DigitVal[Head(t)])

Atoi(t) ==
    IF t[1] = "-" THEN 0 - DigitsVal(Tail(t), 0)
    ELSE IF t[1] = "+" THEN DigitsVal(Tail(t), 0)
    ELSE DigitsVal(t, 0)

RECURSIVE ItoaNat(_)
ItoaNat(n) ==
    IF n < 10 THEN <<DigitChr[n + 1]>>
    ELSE Append(ItoaNat(n \div 10), DigitChr[(n % 10) + 1])

\* strconv.Itoa
Itoa(n) == IF n < 0 THEN <<"-">> \o ItoaNat(0 - n) ELSE ItoaNat(n)

\* strconv.ParseBool
BoolTrue  == {<<"1">>, <<"t">>, <<"T">>, Txt_true, <<"T", "R", "U", "E">>, <<"T", "r", "u", "e">>}
BoolFalse == {<<"0">>, <<"f">>, <<"F">>, Txt_false, <<"F", "A", "L", "S", "E">>, <<"F", "a", "l", "s", "e">>}

\* fv.(boolFlag) succeeds and fvb.IsBoolFlag() is true.
IsBoolFlag(kind) == kind \in {"bool", "nopbool"}

\* Value.String() of the zero value of the kind.
ZeroText(kind) ==
    CASE kind = "bool" -> Txt_false
      [] kind = "int"  -> <<"0">>
      [] OTHER         -> <<>>

\* What a value holds after a Set that returned an error is not specified:
\* leave says which of the possible outcomes happens.
FailLeaves == {"keep", "zero"}

\* Value.Set(text) on a value that renders as cur: whether it returned nil,
\* and what the value renders as afterwards.
ValueSet(kind, cur, text, leave) ==
    LET bad == [ok |-> FALSE, val |-> IF leave = "keep" THEN cur ELSE ZeroText(kind)]
    IN  CASE kind = "int"  -> IF IsInt(text) THEN [ok |-> TRUE, val |-> Itoa(Atoi(text))] ELSE bad
          [] kind = "bool" -> IF text \in BoolTrue THEN [ok |-> TRUE, val |-> Txt_true]
                              ELSE IF text \in BoolFalse THEN [ok |-> TRUE, val |-> Txt_false]
                              ELSE bad
          [] OTHER         -> [ok |-> TRUE, val |-> <<>>]

-----------------------------------------------------------------------------
(* Errors. *)

NoErr == [kind |-> "nil", id |-> "", text |-> <<>>]
ErrHelp == [kind |-> "ErrHelp", id |-> "", text |-> <<>>]
\* "flag provided but not defined: -%c"
UnknownOption(r) == [kind |-> "UnknownOption", id |-> r, text |-> <<>>]
\* "flag needs an argument: -%c"
MissingArgument(r) == [kind |-> "MissingArgument", id |-> r, text |-> <<>>]
\* "invalid value %q for flag -%c: %v"
InvalidValue(r, value) == [kind |-> "InvalidValue", id |-> r, text |-> value]
\* "no such flag -%v"
NoSuchFlag(r) == [kind |-> "NoSuchFlag", id |-> r, text |-> <<>>]
\* the error a Value.Set returned to FlagSet.Set
SetErr(r, value) == [kind |-> "SetErr", id |-> r, text |-> value]
\* errors.New("Bad MyParse")
BadMyParse == [kind |-> "BadMyParse", id |-> "", text |-> <<>>]
\* the error the custom consumer itself returned
ConsumerErr == [kind |-> "ConsumerErr", id |-> "", text |-> <<>>]

ContinueOnError == "ContinueOnError"
ExitOnError == "ExitOnError"
PanicOnError == "PanicOnError"
Modes == {ContinueOnError, ExitOnError, PanicOnError}

-----------------------------------------------------------------------------
(* parseOne. *)

\* f.args and len(f.args)
Args == SubSeq(argv, lo + 1, hi)
LenArgs == hi - lo

\* m with m[k] = v added or overwritten.
Put(m, k, v) == [x \in DOMAIN m \cup {k} |-> IF x = k THEN v ELSE m[x]]

\* f.myParse(f.args): the (count, error) pairs the hook can return on a
\* remaining slice of n tokens.  A nil hook returns (0, nil); "any" is an
\* arbitrary consumer; "first", "all" and "none" claim the first token,
\* every token and no token.
MyParseResults(hook, n) ==
    CASE hook = "nil"   -> {[n |-> 0, err |-> FALSE]}
      [] hook = "none"  -> {[n |-> 0, err |-> FALSE]}
      [] hook = "first" -> {[n |-> 1, err |-> FALSE]}
      [] hook = "all"   -> {[n |-> n, err |-> FALSE]}
      [] hook = "any"   -> {[n |-> k, err |-> e] : k \in (0 - 1)..(n + 1), e \in BOOLEAN}

\* f.myParse was not called.
NoCall == [n |-> 0 - 1, err |-> TRUE]

\* failf that also puts f.actual and the values back to what they were when
\* parseOne was entered.
failfRollingBack(st, e) ==
    [st EXCEPT !.err = e, !.out = @ \o <<"diag", "usage">>, !.actual = actual, !.val = val]

\* failf: fmt.Fprintln(f.Output(), err); f.usage(); return err
failf(st, e) == [st EXCEPT !.err = e, !.out = @ \o <<"diag", "usage">>]

\* An unknown rune that is passed over without an error.
ignoreUnknown(st, r) == st

\* if !have { return false, f.failf("flag provided but not defined: -%c", r) }
failUnknown(st, r) == failf(st, UnknownOption(r))

\* A missing argument that is passed over without an error.
ignoreMissing(st, flag) == st

\* return false, f.failf("flag needs an argument: -%c", flag.Name)
failMissing(st, flag) == failf(st, MissingArgument(flag.Name))

\* A rejected value whose flag is recorded in f.actual all the same.
recordInvalid(st, flag, value) ==
    failf([st EXCEPT !.actual = Put(@, flag.Name, flag)], InvalidValue(flag.Name, value))

\* if err != nil { return false, f.failf("invalid value %q for flag -%c: %v", ...) }
failInvalid(st, flag, value) == failf(st, InvalidValue(flag.Name, value))

\* i+1 < len(s) && s[i+1] == '=' (Go counts from 0, TLA+ from 1)
HasInline(s, i) == i + 1 < Len(s) /\ s[(i + 1) + 1] = "="

\* The test that takes no argument beginning with '-' for a value.
HaveNextPlain(skip) ==
    LenArgs > skip + 1 /\ (argv[lo + skip + 2] = <<>> \/ argv[lo + skip + 2][1] # "-")

\* len(f.args) > skip+1
HaveNext(skip) == LenArgs > skip + 1

\* The place in argv of f.args[1], whatever the cluster has taken so far.
NextArgFirst(skip) == lo + 2

\* the place in argv of f.args[skip+1]
NextArg(skip) == lo + (skip + 1) + 1

\* f.actual[flag.Name] = flag
Record(act, flag) == Put(act, flag.Name, flag)

\* f.args = f.args[1:]: the value tokens taken are not skipped.
AdvanceOne(skip) == lo + 1

\* f.args = f.args[skip+1:], as the new lo
Advance(skip) == lo + skip + 1

\* f.args = f.args[:skip], as the new hi
Truncate(skip) == lo + skip

\* The test that also refuses a count of all the arguments.
BadCountAtLen(n) == n >= LenArgs \/ n < 0

\* skip > len(f.args) || skip < 0
BadCount(n) == n > LenArgs \/ n < 0

\* !f.NoHelp && s == "--help"
HelpAsked(s) == ~NoHelp /\ s = Tok_help

\* The test of the token without the test of the callback.
VersionAskedUnset(s) == s = Tok_vers

\* f.Version != nil && s == "--version"
VersionAsked(s) == Version /\ s = Tok_vers

\* The test of the first byte without the test of the length.
NonOptionByDash(s) == s = <<>> \/ s[1] # "-"

\* len(s) < 2 || s[0] != '-'
NonOption(s) == Len(s) < 2 \/ s[1] # "-"

\* A "--" that is dropped while the loop of Parse goes on.
TerminatorGoesOn(st) == [st EXCEPT !.lo = lo + 1, !.seen = TRUE]

\* if s == "--" { f.args = f.args[1:]; return false, nil }
Terminator(st) == [st EXCEPT !.lo = lo + 1]

\* The body of `for i, r := range s[1:]`, from the rune at s[p] (p counted
\* from 1, so i = p - 2) to the end of the token.  st carries skip,
\* f.actual, the bound values, and what was written and set so far.
RECURSIVE scanCluster(_, _, _, _)
scanCluster(s, p, st, leave) ==
    IF p > Len(s) THEN st
    ELSE
    LET r == s[p]
        i == p - 2
    IN  IF r \notin DOMAIN formal THEN failUnknown(st, r)
        ELSE
        LET flag == formal[r]
            \* err = fv.Set(value), then the code after the if-chain
            set(value, src, idx) ==
                LET res == ValueSet(flag.Kind, st.val[r], value, leave)
                    call == [id |-> r, text |-> value, src |-> src, idx |-> idx, ok |-> res.ok]
                    st1 == [st EXCEPT !.val[r] = res.val, !.log = Append(@, call)]
                IN  IF ~res.ok THEN failInvalid(st1, flag, value)
                    ELSE scanCluster(s, p + 1,
                            [st1 EXCEPT !.actual = Record(@, flag),
                                        !.skip = IF src = "next" THEN @ + 1 ELSE @],
                            leave)
        IN  IF HasInline(s, i)
            THEN set(SubSeq(s, (i + 2) + 1, Len(s)), "inline", 0)
            ELSE IF IsBoolFlag(flag.Kind)
            THEN set(Txt_true, "switch", 0)
            ELSE IF i > Len(s)
            THEN set(SubSeq(s, (i + 1) + 1, Len(s)), "rest", 0)
            ELSE IF HaveNext(st.skip)
            THEN set(argv[NextArg(st.skip)], "next", NextArg(st.skip))
            ELSE failMissing(st, flag)

\* parseOne, given what f.myParse returned (my) and what a failing Set
\* leaves behind (leave): the (bool, error) it returns and the FlagSet's
\* fields when it returns.
parseOne(my, leave) ==
    LET st0 == [seen |-> FALSE, err |-> NoErr, lo |-> lo, hi |-> hi, skip |-> 0,
                actual |-> actual, val |-> val, out |-> <<>>, log |-> <<>>]
    IN  IF LenArgs = 0 THEN st0
        ELSE IF my.err THEN [st0 EXCEPT !.err = ConsumerErr]
        ELSE IF BadCount(my.n) THEN [st0 EXCEPT !.err = BadMyParse]
        ELSE IF my.n # 0 THEN [st0 EXCEPT !.hi = Truncate(my.n), !.seen = TRUE]
        ELSE
        LET s == argv[lo + 1]
        IN  IF HelpAsked(s)
            THEN [st0 EXCEPT !.err = ErrHelp, !.out = <<"usage">>]
            ELSE IF VersionAsked(s)
            THEN [st0 EXCEPT !.err = ErrHelp, !.out = <<"version">>]
            ELSE IF NonOption(s) THEN st0
            ELSE IF s = Tok_dd THEN Terminator(st0)
            ELSE
            LET st == scanCluster(s, 2, st0, leave)
            IN  IF st.err # NoErr THEN st
                ELSE [st EXCEPT !.lo = Advance(st.skip), !.seen = TRUE]

-----------------------------------------------------------------------------
(* The operations on a FlagSet. *)

\* A call of the method name with the argument arg.
Call(name, arg) == [name |-> name, arg |-> arg]

\* A call of the method name with the argument arg that returned ret or, for
\* a visit, handed the flags of ret to fn one after the other.
Returning(name, arg, ret) == [name |-> name, arg |-> arg, ret |-> ret]

\* What the caller registers: a rune, the kind of Value bound to it, and
\* what that value renders as when it is registered.
Binding(name, kind, text) == [name |-> name, kind |-> kind, text |-> text]

\* Var that stores the new Flag under a name that is taken.
VarReplacing(b) ==
    /\ pc = "idle" /\ status = "running"
    /\ formal' = Put(formal, b.name,
                     [Name |-> b.name, Kind |-> b.kind, DefValue |-> b.text])
    /\ val' = Put(val, b.name, b.text)
    /\ op' = Call("Var", b)
    /\ UNCHANGED <<actual, argv, lo, hi, parsed, errorHandling, NoHelp, Version,
                   MyParse, pc, status, err, out, setLog, myRet, turn, triggered>>

\* f.Var(value, name, usage)
Var(b) ==
    /\ pc = "idle" /\ status = "running"
    /\ IF b.name \in DOMAIN formal
       THEN /\ status' = "panic"
            /\ out' = Append(out, "redefined")
            /\ UNCHANGED <<formal, val>>
       ELSE /\ formal' = Put(formal, b.name,
                    [Name |-> b.name, Kind |-> b.kind, DefValue |-> b.text])
            /\ val' = Put(val, b.name, b.text)
            /\ UNCHANGED <<status, out>>
    /\ op' = Call("Var", b)
    /\ UNCHANGED <<actual, argv, lo, hi, parsed, errorHandling, NoHelp, Version,
                   MyParse, pc, err, setLog, myRet, turn, triggered>>

\* Parse as it would be if it began by emptying f.actual.
ParseClearing(arguments) ==
    /\ pc = "idle" /\ status = "running"
    /\ parsed' = TRUE
    /\ argv' = arguments
    /\ lo' = 0
    /\ hi' = Len(arguments)
    /\ pc' = "parsing"
    /\ err' = NoErr
    /\ out' = <<>>
    /\ setLog' = <<>>
    /\ myRet' = NoCall
    /\ turn' = 0
    /\ actual' = EmptyMap
    /\ op' = Call("Parse", arguments)
    /\ UNCHANGED <<formal, val, errorHandling, NoHelp, Version, MyParse, status,
                   triggered>>

\* f.Parse(arguments), up to its loop.
Parse(arguments) ==
    /\ pc = "idle" /\ status = "running"
    /\ parsed' = TRUE
    /\ argv' = arguments
    /\ lo' = 0
    /\ hi' = Len(arguments)
    /\ pc' = "parsing"
    /\ err' = NoErr
    /\ out' = <<>>
    /\ setLog' = <<>>
    /\ myRet' = NoCall
    /\ turn' = 0
    /\ op' = Call("Parse", arguments)
    /\ UNCHANGED <<formal, actual, val, errorHandling, NoHelp, Version, MyParse, status,
                   triggered>>

\* One turn of the loop of Parse: parseOne, then continue, break or the
\* error handling.
ParseStep ==
    /\ pc = "parsing" /\ status = "running"
    /\ \E my \in MyParseResults(MyParse, LenArgs), leave \in FailLeaves :
        LET r == parseOne(my, leave)
        IN  /\ lo' = r.lo
            /\ hi' = r.hi
            /\ actual' = r.actual
            /\ val' = r.val
            /\ out' = out \o r.out
            /\ setLog' = setLog \o r.log
            /\ myRet' = IF LenArgs = 0 THEN NoCall ELSE my
            /\ turn' = 1 - turn
            /\ triggered' = triggered \cup
                    {r.log[k].id : k \in {j \in 1..Len(r.log) : r.log[j].ok}}
            /\ IF r.seen
               THEN UNCHANGED <<pc, err, status>>
               ELSE /\ pc' = "idle"
                    /\ err' = r.err
                    /\ status' = IF r.err = NoErr \/ errorHandling = ContinueOnError
                                 THEN status
                                 ELSE IF errorHandling = ExitOnError THEN "exit2"
                                 ELSE "panic"
    /\ UNCHANGED <<formal, argv, parsed, errorHandling, NoHelp, Version, MyParse, op>>

\* FlagSet.Set that records the flag before it looks it up.
SetUnchecked(name, value) ==
    /\ pc = "idle" /\ status = "running"
    /\ \E leave \in FailLeaves :
        LET have == name \in DOMAIN formal
            flag == IF have THEN formal[name]
                    ELSE [Name |-> name, Kind |-> "nop", DefValue |-> <<>>]
            a    == ValueSet(flag.Kind, IF have THEN val[name] ELSE <<>>, value, leave)
        IN  /\ val' = IF have THEN Put(val, name, a.val) ELSE val
            /\ actual' = Record(actual, flag)
            /\ triggered' = triggered \cup {name}
            /\ op' = Returning("Set", <<name, value>>,
                                IF have THEN NoErr ELSE NoSuchFlag(name))
    /\ UNCHANGED <<formal, argv, lo, hi, parsed, errorHandling, NoHelp, Version,
                   MyParse, pc, status, err, out, setLog, myRet, turn>>

\* FlagSet.Set that renders the new value into the DefValue of the flag.
SetRedefaulting(name, value) ==
    /\ pc = "idle" /\ status = "running"
    /\ IF name \notin DOMAIN formal
       THEN /\ op' = Returning("Set", <<name, value>>, NoSuchFlag(name))
            /\ UNCHANGED <<formal, val, actual, triggered>>
       ELSE \E leave \in FailLeaves :
            LET a    == ValueSet(formal[name].Kind, val[name], value, leave)
                flag == [formal[name] EXCEPT !.DefValue = a.val]
            IN  /\ val' = Put(val, name, a.val)
                /\ IF a.ok
                   THEN /\ formal' = Put(formal, name, flag)
                        /\ actual' = Record(actual, flag)
                        /\ triggered' = triggered \cup {name}
                        /\ op' = Returning("Set", <<name, value>>, NoErr)
                   ELSE /\ op' = Returning("Set", <<name, value>>, SetErr(name, value))
                        /\ UNCHANGED <<formal, actual, triggered>>
    /\ UNCHANGED <<argv, lo, hi, parsed, errorHandling, NoHelp, Version,
                   MyParse, pc, status, err, out, setLog, myRet, turn>>

\* func (f *FlagSet) Set(name rune, value string) error
Set(name, value) ==
    /\ pc = "idle" /\ status = "running"
    /\ IF name \notin DOMAIN formal
       THEN /\ op' = Returning("Set", <<name, value>>, NoSuchFlag(name))
            /\ UNCHANGED <<val, actual, triggered>>
       ELSE \E leave \in FailLeaves :
            LET flag == formal[name]
                a    == ValueSet(flag.Kind, val[name], value, leave)
            IN  /\ val' = Put(val, name, a.val)
                /\ IF a.ok
                   THEN /\ actual' = Record(actual, flag)
                        /\ triggered' = triggered \cup {name}
                        /\ op' = Returning("Set", <<name, value>>, NoErr)
                   ELSE /\ op' = Returning("Set", <<name, value>>, SetErr(name, value))
                        /\ UNCHANGED <<actual, triggered>>
    /\ UNCHANGED <<formal, argv, lo, hi, parsed, errorHandling, NoHelp, Version,
                   MyParse, pc, status, err, out, setLog, myRet, turn>>

\* The code points of the runes that name flags.
RuneCode == ("-" :> 45) @@ ("=" :> 61) @@ ("a" :> 97) @@ ("c" :> 99) @@ ("z" :> 122)

\* The orders in which a range over a map with the keys S can yield them.
Orders(S) == {o \in SeqsUpTo(S, Cardinality(S)) :
                 /\ Len(o) = Cardinality(S)
                 /\ \A i, j \in 1..Len(o) : o[i] = o[j] => i = j}

\* The comparison that lets the greater name go first.
LessReversed(x, y) == RuneCode[x.Name] > RuneCode[y.Name]

\* result[i].Name < result[j].Name
Less(x, y) == RuneCode[x.Name] < RuneCode[y.Name]

\* sort.Slice: the flag x put into the sorted slice s.
RECURSIVE Insert(_, _)
Insert(s, x) ==
    IF s = <<>> THEN <<x>>
    ELSE IF Less(x, Head(s)) THEN <<x>> \o s
    ELSE <<Head(s)>> \o Insert(Tail(s), x)

RECURSIVE SortSlice(_)
SortSlice(s) == IF s = <<>> THEN <<>> ELSE Insert(SortSlice(Tail(s)), Head(s))

\* func sortFlags(flags map[rune]*Flag) []*Flag, the range over the map
\* yielding its keys in the order.
sortFlags(flags, order) == SortSlice([i \in 1..Len(order) |-> flags[order[i]]])

\* func (f *FlagSet) VisitAll(fn func(*Flag))
VisitAll ==
    /\ pc = "idle" /\ status = "running"
    /\ \E order \in Orders(DOMAIN formal) :
        op' = Returning("VisitAll", order, sortFlags(formal, order))
    /\ UNCHANGED <<formal, actual, val, argv, lo, hi, parsed, errorHandling, NoHelp,
                   Version, MyParse, pc, status, err, out, setLog, myRet, turn,
                   triggered>>

\* func (f *FlagSet) Visit(fn func(*Flag))
Visit ==
    /\ pc = "idle" /\ status = "running"
    /\ \E order \in Orders(DOMAIN actual) :
        op' = Returning("Visit", order, sortFlags(actual, order))
    /\ UNCHANGED <<formal, actual, val, argv, lo, hi, parsed, errorHandling, NoHelp,
                   Version, MyParse, pc, status, err, out, setLog, myRet, turn,
                   triggered>>

-----------------------------------------------------------------------------
(* A FlagSet without hooks, with any error handling: flags are registered *)
(* on it and then Parse is called once.                                    *)

Bindings == {Binding("a", "bool", Txt_false),
             Binding("c", "int", Itoa(2)),
             Binding("=", "int", Itoa(0))}

Pool == {Tok_ac, Tok_c, Tok_cc, Tok_c_eq5, Tok_eq_x, Tok_z, Tok_73, Tok_5, Tok_x}

ArgVectors == SeqsUpTo(Pool, MaxArgs)

\* var f FlagSet, or NewFlagSet(name, mode) with the fields hook, NoHelp
\* and Version then assigned.
Made(mode, hook, nohelp, version) ==
    /\ formal = EmptyMap
    /\ actual = EmptyMap
    /\ val = EmptyMap
    /\ argv = <<>>
    /\ lo = 0
    /\ hi = 0
    /\ parsed = FALSE
    /\ errorHandling = mode
    /\ NoHelp = nohelp
    /\ Version = version
    /\ MyParse = hook
    /\ pc = "idle"
    /\ status = "running"
    /\ err = NoErr
    /\ out = <<>>
    /\ setLog = <<>>
    /\ myRet = NoCall
    /\ turn = 0
    /\ triggered = {}
    /\ op = Call("New", mode)

Init == \E mode \in Modes : Made(mode, "nil", FALSE, FALSE)

Next ==
    \/ ~parsed /\ \E b \in Bindings : Var(b)
    \/ ~parsed /\ \E arguments \in ArgVectors : Parse(arguments)
    \/ ParseStep

Spec == Init /\ [][Next]_vars

-----------------------------------------------------------------------------
(* The same FlagSet with Parse called on it again and again, and flags     *)
(* registered at any time in between.                                      *)

RepeatBindings == {Binding("a", "bool", Txt_false), Binding("c", "int", Itoa(2))}

RepeatPool == {Tok_a, Tok_ac, Tok_73}

RepeatVectors == SeqsUpTo(RepeatPool, MaxArgs)

NextRepeat ==
    \/ \E b \in RepeatBindings : Var(b)
    \/ \E arguments \in RepeatVectors : Parse(arguments)
    \/ ParseStep

SpecRepeat == Init /\ [][NextRepeat]_vars

-----------------------------------------------------------------------------
(* A FlagSet made by NewFlagSet with any error handling, with or without   *)
(* an arbitrary custom consumer in f.MyParse; Parse is called once.        *)

HookPool == {Tok_ac, Tok_c, Tok_z, Tok_73, Tok_x}

HookVectors == SeqsUpTo(HookPool, MaxArgs)

InitHook == \E mode \in Modes, hook \in {"nil", "any"} : Made(mode, hook, FALSE, FALSE)

NextHook ==
    \/ ~parsed /\ \E b \in RepeatBindings : Var(b)
    \/ ~parsed /\ \E arguments \in HookVectors : Parse(arguments)
    \/ ParseStep

SpecHook == InitHook /\ [][NextHook]_vars

-----------------------------------------------------------------------------
(* Parse with a consumer that honours its contract and answers the same    *)
(* way whenever it is asked about the same slice.  Parse runs in one       *)
(* goroutine with nothing to wait for, so a turn of its loop that can be   *)
(* taken is taken.                                                         *)

InitLive == \E hook \in {"nil", "none", "first", "all"} :
                Made(ContinueOnError, hook, FALSE, FALSE)

LiveSpec == InitLive /\ [][NextHook]_vars /\ WF_vars(ParseStep)

-----------------------------------------------------------------------------
(* A FlagSet without a custom consumer, with or without the "--help"       *)
(* sentinel and a Version callback; the command line holds sentinels,      *)
(* terminators and tokens that are no options.  Parse is called once.      *)

HelpBindings == {Binding("a", "bool", Txt_false), Binding("-", "nopbool", <<>>)}

HelpPool == {Tok_a, Tok_x, Tok_73, Tok_dash, Tok_dd, Tok_help, Tok_vers}

HelpVectors == SeqsUpTo(HelpPool, MaxArgs)

InitHelp == \E mode \in Modes, nohelp \in BOOLEAN, version \in BOOLEAN :
                Made(mode, "nil", nohelp, version)

NextHelp ==
    \/ ~parsed /\ \E b \in HelpBindings : Var(b)
    \/ ~parsed /\ \E arguments \in HelpVectors : Parse(arguments)
    \/ ParseStep

SpecHelp == InitHelp /\ [][NextHelp]_vars

-----------------------------------------------------------------------------
(* A FlagSet whose methods are called in any order and any number of       *)
(* times: flags are registered, also under a name that is taken, set by    *)
(* name, parsed and visited.                                               *)

RegBindings == {Binding("a", "bool", Txt_false), Binding("a", "nop", <<>>),
                Binding("c", "int", Itoa(2)), Binding("=", "int", Itoa(0))}

RegNames == {"a", "c", "z"}

RegValues == {Txt_true, Tok_73}

RegPool == {Tok_ac, Tok_73}

RegVectors == SeqsUpTo(RegPool, MaxArgs)

NextReg ==
    \/ \E b \in RegBindings : Var(b)
    \/ \E name \in RegNames, value \in RegValues : Set(name, value)
    \/ \E arguments \in RegVectors : Parse(arguments)
    \/ ParseStep
    \/ VisitAll
    \/ Visit

SpecReg == Init /\ [][NextReg]_vars

-----------------------------------------------------------------------------
(* A FlagSet with the "--help" sentinel and a Version callback, without a  *)
(* custom consumer, whose flags take their values from the following       *)
(* arguments: an int, and a nopValue that accepts any text.  The command   *)
(* line holds sentinels and terminators where values are expected.  Parse  *)
(* is called once.                                                         *)

TakeBindings == {Binding("a", "bool", Txt_false), Binding("c", "int", Itoa(2)),
                 Binding("z", "nop", <<>>)}

TakePool == {Tok_ac, Tok_c, Tok_z, Tok_73, Tok_dd, Tok_help, Tok_vers}

TakeVectors == SeqsUpTo(TakePool, MaxArgs)

InitTake == \E mode \in Modes : Made(mode, "nil", FALSE, TRUE)

NextTake ==
    \/ ~parsed /\ \E b \in TakeBindings : Var(b)
    \/ ~parsed /\ \E arguments \in TakeVectors : Parse(arguments)
    \/ ParseStep

SpecTake == InitTake /\ [][NextTake]_vars

-----------------------------------------------------------------------------
(* What the claims speak of. *)

\* Parse has returned to its caller.
Returned == pc = "idle" /\ parsed /\ status = "running"

\* Parse is over: it returned, exited or panicked.
Ended == pc = "idle" /\ parsed

\* f.NFlag()
NFlag == Cardinality(DOMAIN actual)

\* The flag named r is registered with a Value of the kind.
Has(r, kind) == r \in DOMAIN formal /\ formal[r].Kind = kind

\* The token is scanned as a cluster by parseOne of a FlagSet without hooks.
IsCluster(s) == Len(s) >= 2 /\ s[1] = "-" /\ s \notin {Tok_dd, Tok_help}

\* The places in argv whose token a Set of this Parse took as its value.
Consumed == {setLog[k].idx : k \in {j \in 1..Len(setLog) :
                                        setLog[j].src = "next" /\ setLog[j].ok}}

\* No bound value differs from what it was when its flag was registered.
ValuesUntouched == \A r \in DOMAIN formal : val[r] = formal[r].DefValue

\* C1: a token in which the value-required flag c is followed by '=' gives c
\* the text after the '=', scans no further rune of the token, takes no
\* following token, and parsing goes on after it: Parse(["-c=5", x, ...])
\* with positional x, ... succeeds with c = 5 and Args() = [x, ...].
C1_InlineValue ==
    (/\ Returned
     /\ Len(argv) >= 1 /\ argv[1] = Tok_c_eq5
     /\ Has("c", "int")
     /\ \A k \in 2..Len(argv) : argv[k] \in {Tok_x, Tok_73})
    => /\ err = NoErr
       /\ val["c"] = <<"5">>
       /\ Args = Tail(argv)
       /\ setLog = <<[id |-> "c", text |-> <<"5">>, src |-> "inline", idx |-> 0, ok |-> TRUE]>>

\* C2: for the cluster token -ac with a a switch and c an integer flag,
\* followed by a token that is an integer, a is set to "true", c is given the
\* whole next token, and the remaining slice moves past both tokens;
\* Parse(["-ac", "73"]) ends with a = true, c = 73 and no positional
\* arguments.
C2_ClusterThenValue ==
    (/\ Returned
     /\ Len(argv) >= 2 /\ argv[1] = Tok_ac /\ IsInt(argv[2])
     /\ Has("a", "bool") /\ Has("c", "int"))
    => /\ Len(setLog) >= 2
       /\ setLog[1] = [id |-> "a", text |-> Txt_true, src |-> "switch", idx |-> 0, ok |-> TRUE]
       /\ setLog[2] = [id |-> "c", text |-> argv[2], src |-> "next", idx |-> 2, ok |-> TRUE]
       /\ {"a", "c"} \subseteq DOMAIN actual
       /\ lo >= 2
       /\ Len(argv) = 2 =>
            /\ err = NoErr
            /\ val["a"] = Txt_true
            /\ val["c"] = Itoa(Atoi(argv[2]))
            /\ Args = <<>>

C2_Witness ==
    /\ Returned
    /\ argv = <<Tok_ac, Tok_73>>
    /\ err = NoErr
    /\ val["a"] = Txt_true /\ val["c"] = Tok_73
    /\ Args = <<>>

\* C3: once Parse has returned, Args() holds no token that a Set of that
\* Parse took as the value of a flag.
C3_ArgsHoldNoValue ==
    Returned => \A k \in (lo + 1)..hi : k \notin Consumed

C9_MissingArgument ==
    [][(/\ pc = "parsing"
        /\ LenArgs = 1 /\ argv[lo + 1] \in {Tok_c, Tok_ac}
        /\ Has("c", "int") /\ "a" \in DOMAIN formal)
       => /\ pc' = "idle"
          /\ err' = MissingArgument("c")
          /\ val'["c"] = val["c"]
          /\ ("c" \in DOMAIN actual') = ("c" \in DOMAIN actual)
          /\ \A k \in (Len(setLog) + 1)..Len(setLog') : setLog'[k].id # "c"
          /\ lo' = lo /\ hi' = hi]_vars

C9_Witness ==
    /\ Returned
    /\ argv = <<Tok_c>>
    /\ Has("c", "int")
    /\ err = MissingArgument("c")
    /\ val["c"] = Itoa(2)
    /\ actual = EmptyMap

\* C10: when a Set of this Parse rejected its text, Parse failed with
\* InvalidValue of that flag and that text, the failed call did not record
\* the flag in actual, and a rejected next token is still in the remaining
\* slice.
C10_InvalidValue ==
    (Ended /\ Len(setLog) > 0 /\ ~setLog[Len(setLog)].ok)
    => LET call == setLog[Len(setLog)]
       IN  /\ err = InvalidValue(call.id, call.text)
           /\ \A k \in 1..(Len(setLog) - 1) : setLog[k].ok
           /\ call.id \in DOMAIN actual =>
                \E k \in 1..(Len(setLog) - 1) : setLog[k].id = call.id /\ setLog[k].ok
           /\ call.src = "next" => call.idx \in (lo + 1)..hi

C10_Witness ==
    /\ Returned
    /\ argv = <<Tok_c, Tok_x>>
    /\ err = InvalidValue("c", Tok_x)
    /\ Args = argv
    /\ actual = EmptyMap

\* The flags a Set of this Parse call accepted.
TriggeredNow == {setLog[k].id : k \in {j \in 1..Len(setLog) : setLog[j].ok}}

C5_ParseTerminates == (pc = "parsing") ~> (pc = "idle")

\* C6: when the consumer returns a count k with 0 < k <= len(f.args), the
\* remaining slice loses its first k tokens, nothing is set or recorded from
\* them, and the loop goes on.
C6_ConsumerSkips ==
    [][(/\ pc = "parsing" /\ LenArgs > 0
        /\ ~myRet'.err /\ 0 < myRet'.n /\ myRet'.n <= LenArgs)
       => /\ lo' = lo + myRet'.n /\ hi' = hi
          /\ actual' = actual /\ val' = val /\ setLog' = setLog
          /\ pc' = "parsing"]_vars

\* C7: every failure of Parse but the help outcome has written the error and
\* called the usage callback by the time the error handling is applied.
C7_FailureIsReported ==
    (Ended /\ err \notin {NoErr, ErrHelp})
    => \E k \in 1..(Len(out) - 1) : out[k] = "diag" /\ out[k + 1] = "usage"


\* The first of the arguments Parse has still to look at, when it looks.
AtHead(s) == pc = "parsing" /\ LenArgs > 0 /\ argv[lo + 1] = s

\* The turn of the loop of Parse assigns nothing, records nothing and prints
\* nothing.
NothingClassified ==
    /\ actual' = actual
    /\ val' = val
    /\ setLog' = setLog
    /\ out' = out

\* C11: when the loop of Parse finds "--" at the head of the arguments, no
\* consumer claiming it, Parse returns nil at once: the "--" is dropped, the
\* tokens after it are Args() in their order, whatever they look like, and
\* nothing is assigned, recorded or printed.
C11_Terminator ==
    [][(AtHead(Tok_dd) /\ MyParse = "nil")
          => (/\ pc' = "idle"
              /\ err' = NoErr
              /\ status' = status
              /\ Args' = Tail(Args)
              /\ NothingClassified)]_vars

C11_Witness ==
    /\ Returned
    /\ ~NoHelp
    /\ Has("a", "bool")
    /\ argv = <<Tok_dd, Tok_help, Tok_a>>
    /\ Args = <<Tok_help, Tok_a>>
    /\ actual = EmptyMap
    /\ out = <<>>

\* C12: when the loop of Parse finds at the head of the arguments a token of
\* fewer than two characters or one that does not begin with '-', no consumer
\* claiming it, Parse returns nil at once: that token and all after it are
\* Args() in their order, and nothing is assigned, recorded or printed, so
\* no option token after it takes effect.
C12_NonOptionStops ==
    [][(/\ pc = "parsing" /\ LenArgs > 0
        /\ MyParse = "nil"
        /\ (Len(argv[lo + 1]) < 2 \/ argv[lo + 1][1] # "-"))
          => (/\ pc' = "idle"
              /\ err' = NoErr
              /\ status' = status
              /\ Args' = Args
              /\ NothingClassified)]_vars

C12_Witness ==
    /\ Returned
    /\ Has("a", "bool")
    /\ argv = <<Tok_a, Tok_dash, Tok_a>>
    /\ Args = <<Tok_dash, Tok_a>>
    /\ Len(setLog) = 1
    /\ val["a"] = Txt_true

\* The turn of the loop of Parse ends Parse with ErrHelp after the one call
\* of the callback, and looks at no argument.
StopsFor(callback) ==
    /\ pc' = "idle"
    /\ err' = ErrHelp
    /\ out' = Append(out, callback)
    /\ Args' = Args
    /\ actual' = actual
    /\ val' = val
    /\ setLog' = setLog

\* C13: with NoHelp off, "--help" at the head of the arguments calls f.usage
\* and ends Parse with ErrHelp, no later token looked at; "--version" does
\* the same through f.Version when f.Version is set; when it is not set,
\* "--version" is scanned as a cluster like any option token, which here
\* fails on its first rune that is no flag.
C13_Sentinels ==
    [][MyParse = "nil"
          => (/\ (AtHead(Tok_help) /\ ~NoHelp) => StopsFor("usage")
              /\ (AtHead(Tok_vers) /\ Version) => StopsFor("version")
              /\ (AtHead(Tok_vers) /\ ~Version)
                    => (/\ pc' = "idle"
                        /\ err' = UnknownOption(IF "-" \in DOMAIN formal THEN "v" ELSE "-")
                        /\ out' = out \o <<"diag", "usage">>))]_vars

C13_Witness ==
    /\ Ended
    /\ ~NoHelp
    /\ Has("a", "bool")
    /\ argv = <<Tok_a, Tok_help, Tok_a>>
    /\ err = ErrHelp
    /\ out = <<"usage">>
    /\ Args = <<Tok_help, Tok_a>>
    /\ Len(setLog) = 1

\* C14: a Parse of an ExitOnError FlagSet that met "--help" or "--version"
\* ends with ErrHelp, told apart from a clean parse, and does not end the
\* process with the status 2 that a failure to parse ends it with.
C14_HelpIsNoFailure ==
    (Ended /\ errorHandling = ExitOnError /\ err = ErrHelp)
        => (status # "exit2" /\ err # NoErr)

\* C15: whatever calls of Var, FlagSet.Set and Parse were made, failed ones
\* too, every name in f.actual is a name in f.formal and the two maps hold
\* the same Flag under it.
C15_ActualWithinFormal ==
    \A r \in DOMAIN actual : r \in DOMAIN formal /\ actual[r] = formal[r]

C15_Witness ==
    /\ pc = "idle"
    /\ status = "running"
    /\ parsed
    /\ op.name = "Set" /\ op.arg = <<"c", Tok_73>> /\ op.ret = NoErr
    /\ err = UnknownOption("a")
    /\ DOMAIN actual = {"c"}
    /\ DOMAIN formal = {"c", "="}

\* C16: when the consumer returns no error and a count below 0 or above the
\* number of remaining arguments, Parse ends with the error "Bad MyParse",
\* handled by the error handling like any error of Parse, and that turn
\* leaves the remaining arguments, f.actual and every bound value as they
\* were; a count equal to the number of remaining arguments is accepted and
\* the loop goes on.
C16_BadMyParse ==
    [][(pc = "parsing" /\ LenArgs > 0 /\ ~myRet'.err)
          => (/\ (myRet'.n < 0 \/ myRet'.n > LenArgs)
                    => (/\ pc' = "idle"
                        /\ err' = BadMyParse
                        /\ (status' = "running") <=> (errorHandling = ContinueOnError)
                        /\ Args' = Args
                        /\ actual' = actual
                        /\ val' = val
                        /\ setLog' = setLog)
              /\ (myRet'.n = LenArgs)
                    => (pc' = "parsing" /\ err' = NoErr /\ status' = "running"))]_vars

C16_Witness ==
    /\ Ended
    /\ argv = <<Tok_ac, Tok_73, Tok_x>>
    /\ myRet = [n |-> 2, err |-> FALSE]
    /\ Args = <<Tok_x>>
    /\ err = BadMyParse
    /\ DOMAIN actual = {"a", "c"}
    /\ val["c"] = Tok_73

\* C17: a call of Var with a name that is in f.formal panics, whatever the
\* value it brings and whether or not Parse has run, and leaves f.formal and
\* the value bound to the name as they were.
C17_RedefinitionPanics ==
    [][(pc = "idle" /\ op'.name = "Var" /\ op'.arg.name \in DOMAIN formal)
          => (/\ status' = "panic"
              /\ formal' = formal
              /\ val' = val)]_vars

C17_Witness ==
    /\ status = "panic"
    /\ parsed
    /\ op = Call("Var", Binding("a", "nop", <<>>))
    /\ formal["a"] = [Name |-> "a", Kind |-> "bool", DefValue |-> Txt_false]
    /\ val["a"] = Txt_true

\* C18: no call of Parse, turn of its loop or call of FlagSet.Set, failed or
\* not, changes f.formal: no flag is added, removed or replaced and no
\* DefValue changes, so every DefValue is the text its flag was registered
\* with, also when the bound value has changed since.
C18_FormalIsFrame ==
    /\ [][(pc = "parsing" \/ op'.name \in {"Parse", "Set"}) => formal' = formal]_vars
    /\ [](\A r \in DOMAIN formal :
            \E b \in RegBindings : /\ b.name = r
                                   /\ b.kind = formal[r].Kind
                                   /\ b.text = formal[r].DefValue)

C18_Witness ==
    /\ Returned
    /\ op = Returning("Set", <<"a", Txt_true>>, NoErr)
    /\ formal["a"].DefValue = Txt_false /\ val["a"] = Txt_true
    /\ argv = <<Tok_ac, Tok_73, Tok_ac>>
    /\ err = MissingArgument("c")
    /\ formal["c"].DefValue = Itoa(2) /\ val["c"] = Tok_73

\* The sequence s holds every Flag of the map once, the names ascending.
Enumerates(s, flags) ==
    /\ Len(s) = Cardinality(DOMAIN flags)
    /\ \A r \in DOMAIN flags : \E i \in 1..Len(s) : s[i] = flags[r]
    /\ \A i, j \in 1..Len(s) : i < j => RuneCode[s[i].Name] < RuneCode[s[j].Name]

\* C19: VisitAll hands fn every Flag of f.formal exactly once, in ascending
\* order of the names, and Visit does so with f.actual; the order in which
\* the flags were put into the map and the order in which the range over
\* the map yields them make no difference.
C19_VisitsInOrder ==
    /\ op.name = "VisitAll"
          => (/\ Enumerates(op.ret, formal)
              /\ \A order \in Orders(DOMAIN formal) : sortFlags(formal, order) = op.ret)
    /\ op.name = "Visit"
          => (/\ Enumerates(op.ret, actual)
              /\ \A order \in Orders(DOMAIN actual) : sortFlags(actual, order) = op.ret)

C19_Witness ==
    /\ op.name = "VisitAll"
    /\ op.arg = <<"c", "a", "=">>
    /\ Len(op.ret) = 3
    /\ op.ret[1].Name = "=" /\ op.ret[2].Name = "a" /\ op.ret[3].Name = "c"

\* The runes after the '-' of the token at place k, each with that place.
RunesOf(k) == [i \in 1..(Len(argv[k]) - 1) |-> [rune |-> argv[k][i + 1], tok |-> k]]

\* The option occurrences of the tokens at the places k..n that no Set took
\* as its value, from left to right.
RECURSIVE Occurrences(_, _)
Occurrences(k, n) ==
    IF k > n THEN <<>>
    ELSE IF k \in Consumed THEN Occurrences(k + 1, n)
    ELSE RunesOf(k) \o Occurrences(k + 1, n)

\* The occurrences Parse went through: those of the tokens it scanned, the
\* token it failed in included.
Scanned == Occurrences(1, IF err = NoErr THEN lo ELSE lo + 1)

\* C20: a Parse without a consumer calls Value.Set once for each option
\* occurrence it goes through, from left to right across the tokens and
\* inside a cluster, up to the end of the options or to the occurrence it
\* fails at; the occurrences of one cluster that take their value from the
\* following arguments take the first, the second, ... argument after the
\* cluster, in their order.
C20_OneSetPerOccurrence ==
    Ended =>
        (/\ Len(setLog) <= Len(Scanned)
         /\ \A j \in 1..Len(setLog) :
                /\ setLog[j].id = Scanned[j].rune
                /\ setLog[j].ok \/ (j = Len(setLog) /\ err = InvalidValue(setLog[j].id, setLog[j].text))
                /\ setLog[j].src = "next"
                      => (/\ setLog[j].idx = Scanned[j].tok +
                                Cardinality({i \in 1..j : /\ Scanned[i].tok = Scanned[j].tok
                                                          /\ setLog[i].src = "next"})
                          /\ setLog[j].text = argv[setLog[j].idx])
         /\ err = NoErr => Len(setLog) = Len(Scanned)
         /\ err.kind \in {"UnknownOption", "MissingArgument"}
                => (/\ Len(setLog) < Len(Scanned)
                    /\ Scanned[Len(setLog) + 1].rune = err.id))

C20_Witness ==
    /\ Returned
    /\ Has("c", "int")
    /\ argv = <<Tok_cc, Tok_73, Tok_5>>
    /\ err = NoErr
    /\ setLog = << [id |-> "c", text |-> Tok_73, src |-> "next", idx |-> 2, ok |-> TRUE],
                   [id |-> "c", text |-> Tok_5, src |-> "next", idx |-> 3, ok |-> TRUE] >>
    /\ val["c"] = Tok_5
    /\ Args = <<>>

\* The places in the log of the calls of Set after which the flag was not
\* set again.
LastSets == {j \in 1..Len(setLog) : \A k \in (j + 1)..Len(setLog) : setLog[k].id # setLog[j].id}

\* C21: when the one Parse of a FlagSet has failed or stopped for help, every
\* flag it had set before is in f.actual with its Flag of f.formal, and the
\* value of a flag holds what its last Set stored, unless the Set Parse
\* failed in was a later one on that same flag.
C21_NoRollback ==
    (Ended /\ err # NoErr)
        => \A j \in 1..Len(setLog) :
              setLog[j].ok
                 => (/\ setLog[j].id \in DOMAIN actual
                     /\ actual[setLog[j].id] = formal[setLog[j].id]
                     /\ j \in LastSets
                           => val[setLog[j].id] =
                                 ValueSet(formal[setLog[j].id].Kind, <<>>,
                                          setLog[j].text, "keep").val)

C21_Witness ==
    /\ Ended
    /\ argv = <<Tok_c, Tok_73, Tok_ac>>
    /\ Has("a", "bool") /\ Has("c", "int")
    /\ err = MissingArgument("c")
    /\ DOMAIN actual = {"a", "c"}
    /\ val["c"] = Tok_73
    /\ val["a"] = Txt_true

\* C22: when the head of the arguments is "-c" or "-z", the flag takes a
\* value and an argument follows, that argument is what Set is called with,
\* whatever it looks like: an option token, "--", "--help" or "--version".
\* No callback of a sentinel runs and no other flag is set; when Set accepts
\* the text the loop goes on after that argument, and when it does not Parse
\* fails with the invalid value.
C22_NextTokenIsValue ==
    [][\A r \in {"c", "z"} :
          (/\ AtHead(<<"-", r>>)
           /\ MyParse = "nil"
           /\ r \in DOMAIN formal /\ formal[r].Kind \in {"int", "nop"}
           /\ LenArgs > 1)
             => LET value == argv[lo + 2]
                    call  == setLog'[Len(setLog')]
                IN  /\ Len(setLog') = Len(setLog) + 1
                    /\ SubSeq(setLog', 1, Len(setLog)) = setLog
                    /\ call.id = r /\ call.text = value
                    /\ call.src = "next" /\ call.idx = lo + 2
                    /\ IF call.ok
                       THEN /\ pc' = "parsing"
                            /\ err' = NoErr
                            /\ out' = out
                            /\ Args' = Tail(Tail(Args))
                            /\ actual' = Put(actual, r, formal[r])
                       ELSE /\ pc' = "idle"
                            /\ err' = InvalidValue(r, value)
                            /\ out' = out \o <<"diag", "usage">>
                            /\ actual' = actual]_vars

C22_Witness ==
    /\ Returned
    /\ Has("z", "nop")
    /\ argv = <<Tok_z, Tok_help, Tok_73>>
    /\ setLog = << [id |-> "z", text |-> Tok_help, src |-> "next", idx |-> 2, ok |-> TRUE] >>
    /\ err = NoErr
    /\ out = <<>>
    /\ Args = <<Tok_73>>
====
